---- MODULE Spec2Model ----
(***************************************************************************)
(* The noop_method_call late lint pass (NoopMethodCall::check_expr) as a   *)
(* state machine.  One invocation of check_expr walks a chain of gates;   *)
(* every answer of the type checker and of the instance resolver is an    *)
(* input drawn from a bounded set.                                         *)
(***************************************************************************)
EXTENDS Naturals, Sequences, FiniteSets

\* ---------------------------------------------------------------- bounds
\* Deepest reference nesting of a type (0 = Foo, 1 = &Foo, 2 = &&Foo).
MaxRefs == 2
\* Length of the source text of a visited expression.
MaxPos == 3
\* Invocations of check_expr made by the sequential tree walk.
MaxVisits == 2
\* Worker tasks of a parallel tree walk.
NumWorkers == 2
\* Call sites handed to the parallel tree walk.
NumItems == 2
\* Longest no-op catalog of the generalised specification.
MaxCatalog == 2

\* ----------------------------------------------------------------- types
Bases == {"Foo"}
Ty == [refs : 0..MaxRefs, base : Bases]
NoTy == [refs |-> 0, base |-> "?"]

\* ty::Ref(_, ty, _)
IsRef(t) == t.refs > 0
Referent(t) == [t EXCEPT !.refs = t.refs - 1]

\* ----------------------------------------------------------------- spans
Span(lo, hi) == [lo |-> lo, hi |-> hi]
NoSpan == Span(0, 0)
\* Span::with_lo
WithLo(sp, lo) == [sp EXCEPT !.lo = lo]

\* A method call `recv.m()`: the receiver starts the expression at 0 and
\* ends at r, the `.m()` suffix runs from r to MaxPos.
Layouts ==
  { [span |-> Span(0, MaxPos), receiver_span |-> Span(0, r)] :
      r \in 1..(MaxPos - 1) }

\* ------------------------------------------------- expressions (rustc_hir)
MethodCallExprs ==
  [kind : {"MethodCall"}, layout : Layouts, method : {"clone"}]
OtherExprs ==
  [kind : {"Path"}, layout : Layouts, method : {""}]
Exprs == MethodCallExprs \cup OtherExprs
NoExpr == [kind |-> "", layout |-> [span |-> NoSpan, receiver_span |-> NoSpan],
           method |-> ""]

\* ------------------------------------------ answers of the external queries
\* typeck_results().type_dependent_def(hir_id)
NoDef == [some |-> FALSE, kind |-> "", did |-> ""]
TypeDependentDefs ==
  { NoDef,
    [some |-> TRUE, kind |-> "Fn",      did |-> "free_fn"],
    [some |-> TRUE, kind |-> "AssocFn", did |-> "Foo::get"],
    [some |-> TRUE, kind |-> "AssocFn", did |-> "Debug::fmt"],
    [some |-> TRUE, kind |-> "AssocFn", did |-> "Clone::clone"] }

\* ty::Instance::resolve(tcx, param_env, did, substs)
ImplDefIds == {"<&T as Clone>::clone", "<Bar as Clone>::clone"}
Resolutions ==
  { [tag |-> "Err",    def_id |-> ""],
    [tag |-> "OkNone", def_id |-> ""] } \cup
  [tag : {"OkSome"}, def_id : ImplDefIds]

\* What the LateContext answers for one call site.
Contexts ==
  [type_dependent_def : TypeDependentDefs,
   node_substs        : [needs_subst : BOOLEAN],
   resolve            : Resolutions,
   expr_ty_receiver   : Ty,
   expr_ty_adjusted   : Ty]
NoCx == [type_dependent_def |-> NoDef, node_substs |-> [needs_subst |-> FALSE],
         resolve |-> [tag |-> "Err", def_id |-> ""],
         expr_ty_receiver |-> NoTy, expr_ty_adjusted |-> NoTy]

\* tcx: the global tables of the compilation session.
Tcx ==
  [trait_of_item |->
     [d \in {"free_fn", "Foo::get", "Debug::fmt", "Clone::clone"} |->
        CASE d = "Debug::fmt"   -> "core::fmt::Debug"
          [] d = "Clone::clone" -> "core::clone::Clone"
          [] OTHER              -> ""],
   diagnostic_items |->
     [s \in {"Clone", "Debug", "noop_method_clone", "noop_method_deref"} |->
        CASE s = "Clone"             -> "core::clone::Clone"
          [] s = "Debug"             -> "core::fmt::Debug"
          [] s = "noop_method_clone" -> "<&T as Clone>::clone"
          [] s = "noop_method_deref" -> "<&T as Deref>::deref"]]

\* [sym::Clone]: the traits the lint looks at.
AllowList == <<"Clone">>

\* [(sym::noop_method_clone, false)]: the catalogued no-op implementations.
Catalog == << [s |-> "noop_method_clone", peel_ref |-> FALSE] >>

\* -------------------------------------------------------------- the state
Workers == 1..NumWorkers
\* The sequential tree walk runs check_expr on one task.
SeqWorkers == {1}

VARIABLES
  pc,          \* pc[w]: where worker w stands in check_expr
  frame,       \* frame[s]: arguments and locals of the invocation in slot s
  sink,        \* the diagnostics reported so far, in order of emission
  tcx,         \* the session's global tables
  allow_list,  \* the allow-list of traits
  catalog,     \* the no-op catalog
  fuel,        \* invocations the sequential tree walk may still make
  last,        \* outcome of the previous invocation on the same call site
  queue,       \* call sites the parallel tree walk has not handed out yet
  taken        \* call sites the parallel tree walk has handed out

vars == <<pc, frame, sink, tcx, allow_list, catalog, fuel, last, queue, taken>>

InFlight == {"visited", "gate", "guard", "resolve", "catalog", "judge", "emit"}
Terminal == {"skipped", "emitted"}

NoFrame ==
  [expr |-> NoExpr, cx |-> NoCx,
   trait_id |-> "", did |-> "", substs |-> [needs_subst |-> FALSE],
   i |-> "", k |-> 0, peel_ref |-> FALSE,
   receiver_ty |-> NoTy, expr_ty |-> NoTy,
   out |-> <<>>, gates |-> <<>>, queries |-> <<>>]

NoLast == [some |-> FALSE, out |-> <<>>]

\* Variant: the locals are kept in one place shared by every task.
SlotShared(w) == 1

\* The arguments and locals of an invocation live on the stack of the task
\* that runs it: NoopMethodCall has no fields.
Slot(w) == w

Local(w) == frame[Slot(w)]

Query(q, arg) == [q |-> q, arg |-> arg]

\* A call site: the expression the tree walk visits and what the context
\* answers about it.  An expression that is no method call has no callee,
\* no type arguments and no receiver.
OtherContexts ==
  { c \in Contexts : /\ c.type_dependent_def = NoDef
                     /\ ~c.node_substs.needs_subst
                     /\ c.resolve.tag = "Err"
                     /\ c.expr_ty_receiver = c.expr_ty_adjusted }
CallSites ==
  [expr : MethodCallExprs, cx : Contexts] \cup
  [expr : OtherExprs, cx : OtherContexts]

\* ------------------------------------------------------------ pure steps
\* ExprKind::MethodCall(call, _, elements, _)
IsMethodCall(e) == e.kind = "MethodCall"

\* tcx.trait_of_item(did)
TraitOfItem(t, did) == t.trait_of_item[did]

\* tcx.is_diagnostic_item(name, def_id)
IsDiagnosticItem(t, name, def_id) ==
  /\ name \in DOMAIN t.diagnostic_items
  /\ t.diagnostic_items[name] = def_id

\* Variant: every trait passes the interface gate.
InAllowListAnyTrait(t, allow, trait_id) == TRUE

\* [sym::Clone].iter().any(|s| cx.tcx.is_diagnostic_item(*s, trait_id))
InAllowList(t, allow, trait_id) ==
  \E n \in DOMAIN allow : IsDiagnosticItem(t, allow[n], trait_id)

\* The queries `any` makes: it stops at the first hit.
AllowListQueries(t, allow, trait_id) ==
  LET hits == { n \in DOMAIN allow : IsDiagnosticItem(t, allow[n], trait_id) }
      upto == IF hits = {} THEN Len(allow)
              ELSE CHOOSE n \in hits : \A m \in hits : n <= m
  IN  [n \in 1..upto |-> Query("is_diagnostic_item", allow[n])]

\* Some((DefKind::AssocFn, did))
IsAssocFn(def) == def.some /\ def.kind = "AssocFn"

\* Variant: type arguments are never taken to need substitution.
NeedsSubstNever(substs) == FALSE

\* substs.needs_subst()
NeedsSubst(substs) == substs.needs_subst

\* Variant: `Ok(_)` in place of `Ok(Some(i))`.
IsResolvedAnyOk(r) == r.tag # "Err"

\* Ok(Some(i))
IsResolved(r) == r.tag = "OkSome"

\* Variant: the match arm without its `if *peel_ref` guard.
PeelReceiverUnguarded(receiver_ty, peel_ref) ==
  IF IsRef(receiver_ty) THEN Referent(receiver_ty) ELSE receiver_ty

\* ty::Ref(_, ty, _) if *peel_ref => ty,  _ => receiver_ty
PeelReceiver(receiver_ty, peel_ref) ==
  IF IsRef(receiver_ty) /\ peel_ref THEN Referent(receiver_ty) ELSE receiver_ty

\* Variant: the two types compared after peeling every reference.
SameTypeModuloRefs(a, b) == a.base = b.base

\* receiver_ty != expr_ty, negated: the same type constructor applied to the
\* same type arguments.
SameType(a, b) == a = b

\* Variant: the span starts where the receiver starts.
LintSpanFromReceiverStart(expr_span, receiver_span) ==
  WithLo(expr_span, receiver_span.lo)

\* expr_span.with_lo(receiver.span.hi())
LintSpan(expr_span, receiver_span) == WithLo(expr_span, receiver_span.hi)

\* cx.struct_span_lint(NOOP_METHOD_CALL, span, |lint| ...): the message names
\* the method, the label sits on the same span, the note names the type.
BuildDiagnostic(span, method, receiver_ty) ==
  [lint       |-> "noop_method_call",
   span       |-> span,
   message    |-> method,
   label_span |-> span,
   label      |-> "unnecessary method call",
   note_ty    |-> receiver_ty,
   note_method |-> method]

\* Variant: a diagnostic equal to one already reported is dropped.
ReportOnce(snk, d) ==
  IF \E n \in DOMAIN snk : snk[n] = d THEN snk ELSE Append(snk, d)

\* .emit(): the sink takes the diagnostic.
Report(snk, d) == Append(snk, d)

\* The end of check_expr: it has no return value, the invocation ends
\* "diagnostic emitted" when it reported something and "skipped" otherwise.
End(f) == IF f.out = <<>> THEN "skipped" ELSE "emitted"

\* Each invocation starts from its arguments alone.
FreshFrame(e, c) == [NoFrame EXCEPT !.expr = e, !.cx = c]

\* ---------------------------------------------------------------- actions
SetLocal(w, f) == frame' = [frame EXCEPT ![Slot(w)] = f]
Goto(w, l) == pc' = [pc EXCEPT ![w] = l]

\* fn check_expr(&mut self, cx, expr): the sequential tree walk calls the
\* pass on an expression.
Visit(w) ==
  /\ pc[w] = "idle"
  /\ fuel > 0
  /\ \E site \in CallSites :
       SetLocal(w, FreshFrame(site.expr, site.cx))
  /\ fuel' = fuel - 1
  /\ last' = NoLast
  /\ Goto(w, "visited")
  /\ UNCHANGED <<sink, tcx, allow_list, catalog, queue, taken>>

\* The tree walk runs the pass once more over the same expression and the
\* same type-check results.
Revisit(w) ==
  /\ pc[w] \in Terminal
  /\ fuel > 0
  /\ fuel' = fuel - 1
  /\ last' = [some |-> TRUE, out |-> Local(w).out]
  /\ SetLocal(w, FreshFrame(Local(w).expr, Local(w).cx))
  /\ Goto(w, "visited")
  /\ UNCHANGED <<sink, tcx, allow_list, catalog, queue, taken>>

\* check_expr returns: its arguments and locals are gone.
Return(w) ==
  /\ pc[w] \in Terminal
  /\ SetLocal(w, NoFrame)
  /\ Goto(w, "idle")
  /\ last' = NoLast
  /\ UNCHANGED <<sink, tcx, allow_list, catalog, fuel, queue, taken>>

\* The parallel tree walk hands the next call site to a free worker.
TakeItem(w) ==
  /\ pc[w] = "idle"
  /\ queue # <<>>
  /\ queue' = Tail(queue)
  /\ taken' = Append(taken, Head(queue))
  /\ SetLocal(w, FreshFrame(Head(queue).expr, Head(queue).cx))
  /\ Goto(w, "visited")
  /\ UNCHANGED <<sink, tcx, allow_list, catalog, fuel, last>>

\* 4.1  match expr.kind { ExprKind::MethodCall(..) => .., _ => return }
CallSiteFilter(w) ==
  /\ pc[w] = "visited"
  /\ LET f == Local(w) IN
       /\ SetLocal(w, [f EXCEPT !.gates = Append(@, "filter")])
       /\ Goto(w, IF IsMethodCall(f.expr) THEN "gate" ELSE "skipped")
  /\ UNCHANGED <<sink, tcx, allow_list, catalog, fuel, last, queue, taken>>

\* Variant: a call that fails the interface gate goes on to the next gate.
InterfaceGateFallThrough(w) ==
  /\ pc[w] = "gate"
  /\ LET f   == Local(w)
         def == f.cx.type_dependent_def
     IN
       /\ SetLocal(w, [f EXCEPT !.gates = Append(@, "gate"),
                                !.queries = Append(@, Query("type_dependent_def", "")),
                                !.did = def.did])
       /\ Goto(w, "guard")
  /\ UNCHANGED <<sink, tcx, allow_list, catalog, fuel, last, queue, taken>>

\* 4.2  match type_dependent_def { Some((AssocFn, did)) => match trait_of_item
\*      { Some(trait_id) if allow-listed => (trait_id, did), _ => return },
\*      _ => return }
InterfaceGate(w) ==
  /\ pc[w] = "gate"
  /\ LET f     == Local(w)
         def   == f.cx.type_dependent_def
         assoc == IsAssocFn(def)
         trait == IF assoc THEN TraitOfItem(tcx, def.did) ELSE ""
         pass  == assoc /\ trait # "" /\ InAllowList(tcx, allow_list, trait)
         qs    == <<Query("type_dependent_def", "")>>
                  \o (IF assoc THEN <<Query("trait_of_item", def.did)>> ELSE <<>>)
                  \o (IF assoc /\ trait # ""
                      THEN AllowListQueries(tcx, allow_list, trait) ELSE <<>>)
     IN
       /\ SetLocal(w, [f EXCEPT !.gates = Append(@, "gate"),
                                !.queries = @ \o qs,
                                !.trait_id = IF pass THEN trait ELSE @,
                                !.did = IF pass THEN def.did ELSE @])
       /\ Goto(w, IF pass THEN "guard" ELSE "skipped")
  /\ UNCHANGED <<sink, tcx, allow_list, catalog, fuel, last, queue, taken>>

\* Variant: the guard substitutes in place instead of returning.
InstantiationGuardSubstituting(w) ==
  /\ pc[w] = "guard"
  /\ LET f == Local(w) IN
       /\ SetLocal(w, [f EXCEPT !.gates = Append(@, "guard"),
                                !.queries = @ \o <<Query("node_substs", ""),
                                                   Query("needs_subst", "")>>,
                                !.cx.node_substs.needs_subst = FALSE,
                                !.substs = [needs_subst |-> FALSE]])
       /\ Goto(w, "resolve")
  /\ UNCHANGED <<sink, tcx, allow_list, catalog, fuel, last, queue, taken>>

\* 4.3  let substs = node_substs(hir_id); if substs.needs_subst() { return }
InstantiationGuard(w) ==
  /\ pc[w] = "guard"
  /\ LET f      == Local(w)
         substs == f.cx.node_substs
     IN
       /\ SetLocal(w, [f EXCEPT !.gates = Append(@, "guard"),
                                !.queries = @ \o <<Query("node_substs", ""),
                                                   Query("needs_subst", "")>>,
                                !.substs = substs])
       /\ Goto(w, IF NeedsSubst(substs) THEN "skipped" ELSE "resolve")
  /\ UNCHANGED <<sink, tcx, allow_list, catalog, fuel, last, queue, taken>>

\* 4.4  let param_env = tcx.param_env(trait_id);
\*      match Instance::resolve(..) { Ok(Some(i)) => i, _ => return }
\*      and the entry of the loop over the catalog.
ResolveInstance(w) ==
  /\ pc[w] = "resolve"
  /\ LET f == Local(w)
         r == f.cx.resolve
     IN
       /\ SetLocal(w, [f EXCEPT !.gates = Append(@, "resolve"),
                                !.queries = @ \o <<Query("param_env", f.trait_id),
                                                   Query("resolve", f.did)>>,
                                !.i = IF IsResolved(r) THEN r.def_id ELSE @,
                                !.k = IF IsResolved(r) THEN 1 ELSE @])
       /\ Goto(w, IF IsResolved(r) /\ Len(catalog) > 0 THEN "catalog"
                  ELSE "skipped")
  /\ UNCHANGED <<sink, tcx, allow_list, catalog, fuel, last, queue, taken>>

\* 4.5  for (s, peel_ref) in [..].iter() { if is_diagnostic_item(*s, i.def_id())
CatalogCheck(w) ==
  /\ pc[w] = "catalog"
  /\ Local(w).k \in DOMAIN catalog
  /\ LET f     == Local(w)
         entry == catalog[f.k]
         hit   == IsDiagnosticItem(tcx, entry.s, f.i)
         g     == [f EXCEPT !.gates = Append(@, "catalog"),
                            !.queries = Append(@, Query("is_diagnostic_item", entry.s)),
                            !.peel_ref = IF hit THEN entry.peel_ref ELSE @,
                            !.k = IF ~hit /\ f.k < Len(catalog) THEN f.k + 1 ELSE @]
     IN
       /\ SetLocal(w, g)
       /\ Goto(w, IF hit THEN "judge"
                  ELSE IF f.k < Len(catalog) THEN "catalog" ELSE End(f))
  /\ UNCHANGED <<sink, tcx, allow_list, catalog, fuel, last, queue, taken>>

\* 4.6  receiver_ty (peeled if the entry asks for it) against
\*      expr_ty_adjusted(expr); if receiver_ty != expr_ty { return }
TypeIdentityJudge(w) ==
  /\ pc[w] = "judge"
  /\ LET f           == Local(w)
         receiver_ty == PeelReceiver(f.cx.expr_ty_receiver, f.peel_ref)
         expr_ty     == f.cx.expr_ty_adjusted
     IN
       /\ SetLocal(w, [f EXCEPT !.gates = Append(@, "judge"),
                                !.queries = @ \o <<Query("expr_ty", ""),
                                                   Query("expr_ty_adjusted", "")>>,
                                !.receiver_ty = receiver_ty,
                                !.expr_ty = expr_ty])
       /\ Goto(w, IF ~SameType(receiver_ty, expr_ty) THEN End(f) ELSE "emit")
  /\ UNCHANGED <<sink, tcx, allow_list, catalog, fuel, last, queue, taken>>

\* 4.7  let span = expr_span.with_lo(receiver.span.hi());
\*      cx.struct_span_lint(NOOP_METHOD_CALL, span, ..emit()), then the loop
\*      goes on to the next catalog entry.
EmitDiagnostic(w) ==
  /\ pc[w] = "emit"
  /\ LET f    == Local(w)
         span == LintSpan(f.expr.layout.span, f.expr.layout.receiver_span)
         d    == BuildDiagnostic(span, f.expr.method, f.receiver_ty)
         snk  == Report(sink, d)
         g    == [f EXCEPT !.gates = Append(@, "emit"),
                           !.queries = Append(@, Query("struct_span_lint", "")),
                           !.out = @ \o SubSeq(snk, Len(sink) + 1, Len(snk)),
                           !.k = IF f.k < Len(catalog) THEN f.k + 1 ELSE @]
     IN
       /\ sink' = snk
       /\ SetLocal(w, g)
       /\ Goto(w, IF f.k < Len(catalog) THEN "catalog" ELSE End(g))
  /\ UNCHANGED <<tcx, allow_list, catalog, fuel, last, queue, taken>>

\* A step inside an invocation of check_expr.
CheckExprStep(w) ==
  \/ CallSiteFilter(w)
  \/ InterfaceGate(w)
  \/ InstantiationGuard(w)
  \/ ResolveInstance(w)
  \/ CatalogCheck(w)
  \/ TypeIdentityJudge(w)
  \/ EmitDiagnostic(w)

\* --------------------------------------------------------- specifications
InitCommon ==
  /\ pc = [w \in Workers |-> "idle"]
  /\ frame = [s \in Workers |-> NoFrame]
  /\ sink = <<>>
  /\ tcx = Tcx
  /\ allow_list = AllowList
  /\ last = NoLast
  /\ taken = <<>>

\* The pass as it is built, run by a sequential tree walk.
Init ==
  /\ InitCommon
  /\ catalog = Catalog
  /\ fuel = MaxVisits
  /\ queue = <<>>

Next ==
  \E w \in SeqWorkers :
    \/ Visit(w)
    \/ Revisit(w)
    \/ Return(w)
    \/ CallSiteFilter(w)
    \/ InterfaceGate(w)
    \/ InstantiationGuard(w)
    \/ ResolveInstance(w)
    \/ CatalogCheck(w)
    \/ TypeIdentityJudge(w)
    \/ EmitDiagnostic(w)

Spec == Init /\ [][Next]_vars

\* Catalogs the loop over the catalog may be given.
CatalogEntries ==
  [s : {"noop_method_clone", "noop_method_deref"}, peel_ref : BOOLEAN]
Catalogs ==
  UNION { { c \in [1..n -> CatalogEntries] :
              \A a, b \in 1..n : a # b => c[a].s # c[b].s } : n \in 1..MaxCatalog }

\* The tree walk without a second run over the same expression.
NextOnce ==
  \E w \in SeqWorkers :
    \/ Visit(w)
    \/ Return(w)
    \/ CallSiteFilter(w)
    \/ InterfaceGate(w)
    \/ InstantiationGuard(w)
    \/ ResolveInstance(w)
    \/ CatalogCheck(w)
    \/ TypeIdentityJudge(w)
    \/ EmitDiagnostic(w)

\* One invocation of the pass as it is built.  It runs to its end:
\* check_expr is synchronous and never waits.
InitOnce ==
  /\ InitCommon
  /\ catalog = Catalog
  /\ fuel = 1
  /\ queue = <<>>

FairSpec ==
  /\ InitOnce
  /\ [][NextOnce]_vars
  /\ \A w \in SeqWorkers : WF_vars(CheckExprStep(w))

\* One invocation of the pass over any catalog.
InitCat ==
  /\ InitCommon
  /\ catalog \in Catalogs
  /\ fuel = 1
  /\ queue = <<>>

SpecCat == InitCat /\ [][NextOnce]_vars

\* The call sites a parallel tree walk is given: calls of Clone::clone on a
\* reference with concrete type arguments that resolve to the blanket
\* implementation for references; the result is a reference or a value.
ParItems ==
  { site \in CallSites :
      /\ IsMethodCall(site.expr)
      /\ site.cx.type_dependent_def.did = "Clone::clone"
      /\ ~site.cx.node_substs.needs_subst
      /\ site.cx.resolve = [tag |-> "OkSome", def_id |-> "<&T as Clone>::clone"]
      /\ site.cx.expr_ty_receiver.refs = 1
      /\ site.cx.expr_ty_adjusted.refs \in {0, 1} }

InitPar ==
  /\ InitCommon
  /\ catalog = Catalog
  /\ fuel = 0
  /\ queue \in { q \in [1..NumItems -> ParItems] :
                   \A a, b \in 1..NumItems : a # b => q[a] # q[b] }

NextPar ==
  \E w \in Workers :
    \/ TakeItem(w)
    \/ Return(w)
    \/ CallSiteFilter(w)
    \/ InterfaceGate(w)
    \/ InstantiationGuard(w)
    \/ ResolveInstance(w)
    \/ CatalogCheck(w)
    \/ TypeIdentityJudge(w)
    \/ EmitDiagnostic(w)

SpecPar == InitPar /\ [][NextPar]_vars

\* ================================================================ properties
Last(q) == q[Len(q)]

\* What the context says about a call site, read off its answers alone.
IsCloneTraitMethod(c) ==
  /\ c.type_dependent_def.some
  /\ c.type_dependent_def.kind = "AssocFn"
  /\ tcx.trait_of_item[c.type_dependent_def.did] = "core::clone::Clone"
ResolvesToNoopClone(c) ==
  c.resolve = [tag |-> "OkSome", def_id |-> "<&T as Clone>::clone"]

C2_ExactlyOneDiagnosticAtSuffixSpan ==
  \A w \in SeqWorkers :
    /\ Len(Local(w).out) <= 1
    /\ ( /\ pc[w] \in Terminal
         /\ Len(Local(w).gates) >= 4
         /\ ResolvesToNoopClone(Local(w).cx)
         /\ Local(w).cx.expr_ty_receiver = Local(w).cx.expr_ty_adjusted )
       => /\ pc[w] = "emitted"
          /\ Len(Local(w).out) = 1
          /\ Local(w).out[1].span =
               [lo |-> Local(w).expr.layout.receiver_span.hi,
                hi |-> Local(w).expr.layout.span.hi]
          /\ sink # <<>>
          /\ Last(sink) = Local(w).out[1]

C2_Witness ==
  /\ pc[1] = "emitted"
  /\ Len(Local(1).out) = 1
  /\ Local(1).expr.layout.receiver_span = Span(0, 2)
  /\ Local(1).out[1].span = Span(2, MaxPos)

\* C3: a method call whose type arguments still need substitution never gets
\* a diagnostic and ends skipped, whatever the resolver and the types would
\* say.
C3_NoDiagnosticWhenNeedsSubst ==
  \A w \in SeqWorkers :
    (Local(w).expr.kind = "MethodCall" /\ Local(w).cx.node_substs.needs_subst) =>
      /\ Local(w).out = <<>>
      /\ pc[w] \notin {"resolve", "catalog", "judge", "emit", "emitted"}

C3_Witness ==
  /\ pc[1] = "skipped"
  /\ Local(1).gates = <<"filter", "gate", "guard">>
  /\ Local(1).cx.node_substs.needs_subst
  /\ ResolvesToNoopClone(Local(1).cx)
  /\ Local(1).cx.expr_ty_receiver = Local(1).cx.expr_ty_adjusted

\* C4: a call resolved to the catalogued no-op implementation whose receiver
\* type differs from the adjusted type of the call never gets a diagnostic:
\* the comparison is exact.
C4_NoDiagnosticWhenTypesDiffer ==
  \A w \in SeqWorkers :
    ( /\ ResolvesToNoopClone(Local(w).cx)
      /\ Local(w).cx.expr_ty_receiver # Local(w).cx.expr_ty_adjusted ) =>
      /\ Local(w).out = <<>>
      /\ pc[w] \notin {"emit", "emitted"}

C4_Witness ==
  /\ pc[1] = "skipped"
  /\ Local(1).gates = <<"filter", "gate", "guard", "resolve", "catalog", "judge">>
  /\ Local(1).cx.expr_ty_receiver = [refs |-> 2, base |-> "Foo"]
  /\ Local(1).cx.expr_ty_adjusted = [refs |-> 1, base |-> "Foo"]

\* The six gates in the order of the source, then the emitter.
Chain == <<"filter", "gate", "guard", "resolve", "catalog", "judge", "emit">>

\* Whether gate number n lets the call site with expression e and answers c
\* through, read off the answers alone.
GateLetsThrough(n, e, c) ==
  CASE n = 1 -> e.kind = "MethodCall"
    [] n = 2 -> IsCloneTraitMethod(c)
    [] n = 3 -> ~c.node_substs.needs_subst
    [] n = 4 -> c.resolve.tag = "OkSome"
    [] n = 5 -> c.resolve.def_id = "<&T as Clone>::clone"
    [] n = 6 -> c.expr_ty_receiver = c.expr_ty_adjusted
    [] OTHER -> TRUE

C5_ChainShape ==
  \A w \in SeqWorkers :
    LET f == Local(w)
        n == Len(f.gates)
    IN
      \* the gates run in the fixed order, each at most once
      /\ n <= Len(Chain)
      /\ \A m \in 1..n : f.gates[m] = Chain[m]
      \* every gate but the last one evaluated has let the call through
      /\ \A m \in 1..(n - 1) : GateLetsThrough(m, f.expr, f.cx)
      /\ pc[w] \in InFlight =>
           /\ n < Len(Chain)
           /\ pc[w] = (IF n = 0 THEN "visited" ELSE Chain[n + 1])
           /\ n > 0 => GateLetsThrough(n, f.expr, f.cx)
           /\ f.out = <<>>
      /\ pc[w] = "skipped" =>
           /\ f.out = <<>>
           /\ n \in 1..6
           /\ ~GateLetsThrough(n, f.expr, f.cx)
      /\ pc[w] = "emitted" =>
           /\ Len(f.out) = 1
           /\ f.gates = Chain

\* C5: an invocation of check_expr evaluates the six gates in their fixed
\* order, each at most once; a gate that fails ends it "skipped" with no
\* diagnostic, six passing gates end it "diagnostic emitted" with exactly one;
\* and every invocation that has started reaches one of the two ends.
C5_LinearChainTerminates ==
  /\ []C5_ChainShape
  /\ \A w \in SeqWorkers : (pc[w] = "visited") ~> (pc[w] \in Terminal)

C5_Witness ==
  /\ pc[1] = "skipped"
  /\ Local(1).gates = <<"filter", "gate", "guard", "resolve">>
  /\ Local(1).cx.resolve.tag = "OkNone"

\* What check_expr reports for a call site, as a function of the expression
\* and the answers alone.
SequentialDiagnostics(site) ==
  IF \A n \in 1..6 : GateLetsThrough(n, site.expr, site.cx)
  THEN << [lint        |-> "noop_method_call",
           span        |-> [lo |-> site.expr.layout.receiver_span.hi,
                            hi |-> site.expr.layout.span.hi],
           message     |-> site.expr.method,
           label_span  |-> [lo |-> site.expr.layout.receiver_span.hi,
                            hi |-> site.expr.layout.span.hi],
           label       |-> "unnecessary method call",
           note_ty     |-> site.cx.expr_ty_receiver,
           note_method |-> site.expr.method] >>
  ELSE <<>>

\* C6: a second run of check_expr over the same expression and the same
\* answers reports exactly what the first run reported, and what any run
\* reports is fixed by the expression and the answers, whatever ran before.
C6_SecondRunReportsTheSame ==
  \A w \in SeqWorkers :
    pc[w] \in Terminal =>
      /\ last.some => Local(w).out = last.out
      /\ Local(w).out =
           SequentialDiagnostics([expr |-> Local(w).expr, cx |-> Local(w).cx])

C6_Witness ==
  /\ pc[1] = "emitted"
  /\ last.some
  /\ Len(last.out) = 1
  /\ Len(sink) = 2

Count(d, q) == Cardinality({ n \in DOMAIN q : q[n] = d })
Range(q) == { q[n] : n \in DOMAIN q }
SequentialRun(sites) ==
  UNION { Range(SequentialDiagnostics(sites[n])) : n \in DOMAIN sites }
CountInSequentialRun(d, sites) ==
  Cardinality({ n \in DOMAIN sites : d \in Range(SequentialDiagnostics(sites[n])) })

Quiescent == queue = <<>> /\ \A w \in Workers : pc[w] \notin InFlight

\* C7: when the workers of a parallel tree walk have finished their call
\* sites, the sink holds, in some order, exactly the diagnostics a sequential
\* run over the same call sites reports: one for each no-op call site.
C7_ParallelRunReportsAsSequential ==
  /\ \A n \in DOMAIN sink : CountInSequentialRun(sink[n], taken) >= Count(sink[n], sink)
  /\ Quiescent =>
       /\ Range(sink) = SequentialRun(taken)
       /\ \A d \in Range(sink) : Count(d, sink) = CountInSequentialRun(d, taken)

C7_Witness ==
  /\ Quiescent
  /\ Len(taken) = 2
  /\ Len(sink) = 2
  /\ sink[1] # sink[2]
  /\ sink[1] = SequentialDiagnostics(taken[2])[1]

\* C8: no step changes the answers of the type checker, the session tables,
\* the allow-list or the catalog; the sink changes only by one appended
\* diagnostic in the step that ends an invocation "diagnostic emitted", and a
\* step that ends an invocation "skipped" finds the sink as the invocation
\* found it.
C8_OnlyTheSinkChanges ==
  [][ /\ tcx' = tcx
      /\ allow_list' = allow_list
      /\ catalog' = catalog
      /\ \A w \in SeqWorkers :
           /\ pc[w] \in InFlight =>
                /\ Local(w).cx' = Local(w).cx
                /\ Local(w).expr' = Local(w).expr
           /\ pc'[w] = "skipped" => (sink' = sink /\ Local(w).out' = <<>>)
      /\ sink' # sink =>
           /\ Len(sink') = Len(sink) + 1
           /\ SubSeq(sink', 1, Len(sink)) = sink
           /\ \E w \in SeqWorkers : pc[w] = "emit" /\ pc'[w] = "emitted"
    ]_vars

C8_Witness ==
  /\ pc[1] = "skipped"
  /\ Len(sink) = 1
  /\ Local(1).gates = <<"filter", "gate", "guard", "resolve", "catalog">>

\* C9: the type the judge compares with the adjusted type of the call is the
\* referent of the receiver type when the matched catalog entry asks for
\* stripping and the receiver type is a reference, and the receiver type
\* itself otherwise; with the catalog as built (the Clone entry, no
\* stripping) it is always the receiver type itself.
C9_ComparedType ==
  /\ Catalog = << [s |-> "noop_method_clone", peel_ref |-> FALSE] >>
  /\ \A w \in SeqWorkers :
       LET f == Local(w) IN
         (f.gates # <<>> /\ Last(f.gates) = "judge") =>
           /\ f.receiver_ty =
                (IF catalog[f.k].peel_ref /\ f.cx.expr_ty_receiver.refs > 0
                 THEN [refs |-> f.cx.expr_ty_receiver.refs - 1,
                       base |-> f.cx.expr_ty_receiver.base]
                 ELSE f.cx.expr_ty_receiver)
           /\ catalog = Catalog => f.receiver_ty = f.cx.expr_ty_receiver
           /\ (pc[w] = "emit") <=> (f.receiver_ty = f.cx.expr_ty_adjusted)

C9_Witness ==
  /\ pc[1] = "emit"
  /\ Last(Local(1).gates) = "judge"
  /\ catalog[Local(1).k].peel_ref
  /\ Local(1).cx.expr_ty_receiver = [refs |-> 2, base |-> "Foo"]
  /\ Local(1).receiver_ty = [refs |-> 1, base |-> "Foo"]

Positions(q, name) == { n \in DOMAIN q : q[n].q = name }

\* C10: an invocation asks the instance resolver at most once, after the
\* allow-list test and the needs_subst test, and only for a call of an
\* allow-listed trait whose type arguments need no substitution; it tests the
\* catalog and asks for the two types only after the resolver answered
\* Ok(Some).
C10_ResolverQueriedOnceAfterGuards ==
  \A w \in SeqWorkers :
    LET f  == Local(w)
        qs == f.queries
        rs == Positions(qs, "resolve")
    IN
      /\ Cardinality(rs) <= 1
      /\ \A r \in rs :
           /\ IsCloneTraitMethod(f.cx)
           /\ ~f.cx.node_substs.needs_subst
           /\ \E a \in 1..(r - 1) : qs[a] = Query("is_diagnostic_item", "Clone")
           /\ \E a \in 1..(r - 1) : qs[a] = Query("needs_subst", "")
           /\ qs[r].arg = "Clone::clone"
      /\ \A n \in DOMAIN qs :
           ( \/ qs[n] = Query("is_diagnostic_item", "noop_method_clone")
             \/ qs[n].q \in {"expr_ty", "expr_ty_adjusted", "struct_span_lint"} ) =>
             /\ \E r \in rs : r < n
             /\ f.cx.resolve.tag = "OkSome"

C10_Witness ==
  /\ pc[1] = "skipped"
  /\ Cardinality(Positions(Local(1).queries, "resolve")) = 1
  /\ Local(1).cx.resolve.tag = "Err"
  /\ Last(Local(1).queries).q = "resolve"

====
